---- MODULE Spec2Model ----
(***************************************************************************)
(* Model of homework.py: a bot that polls the homework-review API and      *)
(* relays status changes and failures to a Telegram chat.                  *)
(*                                                                         *)
(* Python values are encoded with uniform record shapes:                   *)
(*   - None is the string NoneValue where a string is expected;            *)
(*   - a dict is a record carrying the set `keys` of the keys it has; the  *)
(*     field of an absent key holds a fixed filler that is never read;     *)
(*   - a formatted text is a record of the template and its arguments;     *)
(*   - an optional value is a sequence of length 0 or 1.                   *)
(***************************************************************************)
EXTENDS Integers, Sequences, FiniteSets, TLC

VARIABLES
    pc,                 \* position of main: "start", "poll", "sleep", "exited"
    PRACTICUM_TOKEN,    \* module globals read from the environment
    TELEGRAM_TOKEN,
    TELEGRAM_CHAT_ID,
    current_timestamp,  \* main's cursor
    errors,             \* main's last error message
    exit_codes,         \* <<>> while running, <<code>> once the process ended
    cycle,              \* <<record of the try statement just executed>>, <<>> outside it
    prev_error,         \* <<error message>> of the previous iteration, <<>> if it had none
    polled,             \* whether a request has been issued
    non200_notified,    \* whether a send of the error message of a non-200 answer was attempted
    sleeps_since_fetch, \* number of time.sleep calls since the last request
    slept_since_fetch   \* seconds slept since the last request

vars == <<pc, PRACTICUM_TOKEN, TELEGRAM_TOKEN, TELEGRAM_CHAT_ID,
          current_timestamp, errors, exit_codes, cycle, prev_error, polled,
          non200_notified, sleeps_since_fetch, slept_since_fetch>>

----------------------------------------------------------------------------
(* Bounds and input domains *)

MaxHomeworks == 2

NoneValue == "<None>"
TokenValues == {NoneValue, "", "token"}
StartTimes == {900}
DateValues == {1000}
StatusCodes == {200, 503}
HomeworkNames == {"hw1", "hw2"}

----------------------------------------------------------------------------
(* Constants of the program *)

(* a tenth of the interval. *)
RETRY_TIME_short == 600 \div 10

RETRY_TIME == 600

(* the sentences of approved and rejected exchanged. *)
VERDICTS_swapped ==
    [s \in {"approved", "reviewing", "rejected"} |->
        CASE s = "approved" -> "verdict: the reviewer has remarks"
          [] s = "reviewing" -> "verdict: taken for review"
          [] s = "rejected" -> "verdict: approved, the reviewer liked everything"]

(* The verdict sentences are kept as ASCII renderings of the Russian texts. *)
VERDICTS ==
    [s \in {"approved", "reviewing", "rejected"} |->
        CASE s = "approved" -> "verdict: approved, the reviewer liked everything"
          [] s = "reviewing" -> "verdict: taken for review"
          [] s = "rejected" -> "verdict: the reviewer has remarks"]

----------------------------------------------------------------------------
(* Formatted texts *)

Text(tmpl, name, detail, from_date) ==
    [wrapped |-> FALSE, quoted |-> FALSE, tmpl |-> tmpl,
     homework_name |-> name, detail |-> detail, from_date |-> from_date]

EmptyString == Text("", "", "", 0)

IntStr(n) == CASE n = 200 -> "200" [] n = 503 -> "503" [] OTHER -> "int"

API_ANSWER_ERROR(from_date, error) == Text("API_ANSWER_ERROR", "", error, from_date)
API_RESPONSE_ERROR(error) == Text("API_RESPONSE_ERROR", "", error, 0)
RESPONSE_KEY_ERROR == Text("RESPONSE_KEY_ERROR", "", "", 0)
WRONG_STATUS_ERROR(homework_name, status) ==
    Text("WRONG_STATUS_ERROR", homework_name, status, 0)
STATUS_VERDICT(homework_name, verdict) ==
    Text("STATUS_VERDICT", homework_name, verdict, 0)

(* An exception: its class and its argument. *)
Exc(cls, text) == [cls |-> cls, text |-> text]

(* str(error): the argument, except that KeyError shows the repr of it. *)
ExcStr(exc) == [exc.text EXCEPT !.quoted = (exc.cls = "KeyError")]

ERROR_MESSAGE(exc) == [ExcStr(exc) EXCEPT !.wrapped = TRUE]

Raise(exc) == [raised |-> TRUE, exc |-> <<exc>>, value |-> <<>>]
Return(v) == [raised |-> FALSE, exc |-> <<>>, value |-> <<v>>]

----------------------------------------------------------------------------
(* Inputs: what the environment, the API and Telegram can answer *)

Truthy(s) == s \notin {NoneValue, ""}

(* Python's `a or b` on values encoded as strings. *)
PyOr(a, b) == IF Truthy(a) THEN a ELSE b

Statuses == DOMAIN VERDICTS \cup {"unknown"}

Item(is_dict, keys, name, status) ==
    [is_dict |-> is_dict, keys |-> keys, homework_name |-> name, status |-> status]

(* Elements of `homeworks`: dicts with any subset of the two fields, and a
   JSON string. *)
FirstItems ==
    {Item(TRUE, {"homework_name", "status"}, n, s) : n \in HomeworkNames, s \in Statuses}
    \cup {Item(TRUE, {"homework_name"}, "hw1", ""),
          Item(TRUE, {"status"}, "", "approved"),
          Item(TRUE, {}, "", ""),
          Item(FALSE, {}, "", "")}

TailItems ==
    {Item(TRUE, {"homework_name", "status"}, "hw2", "rejected"),
     Item(FALSE, {}, "", "")}

HomeworkLists ==
    {<<>>} \cup
    UNION {{l \in [1..n -> FirstItems \cup TailItems] :
                /\ l[1] \in FirstItems
                /\ \A i \in 2..n : l[i] \in TailItems} : n \in 1..MaxHomeworks}

(* The value under the key `homeworks`: a list, or a JSON string. *)
HomeworksValues ==
    {[is_list |-> TRUE, items |-> l] : l \in HomeworkLists}
    \cup {[is_list |-> FALSE, items |-> <<>>]}

Body(type, keys, error, code, current_date, homeworks) ==
    [type |-> type, keys |-> keys, error |-> error, code |-> code,
     current_date |-> current_date, homeworks |-> homeworks]

NoHomeworks == [is_list |-> FALSE, items |-> <<>>]

(* Decoded JSON bodies: objects with `homeworks` and `current_date` present
   or absent, objects with an `error` or a `code` key, an empty array and a
   number. *)
PlainBodies ==
    {Body("dict",
          {k \in {"current_date"} : d # 0} \cup {k \in {"homeworks"} : h # <<>>},
          "", "", d,
          IF h # <<>> THEN h[1] ELSE NoHomeworks) :
        d \in {0} \cup DateValues,
        h \in {<<>>} \cup {<<v>> : v \in HomeworksValues}}

ValidHomeworks ==
    [is_list |-> TRUE,
     items |-> <<Item(TRUE, {"homework_name", "status"}, "hw1", "approved")>>]

RejectionBodies ==
    {Body("dict", ks \cup hk, 
          IF "error" \in ks THEN "UnknownError" ELSE "",
          IF "code" \in ks THEN "not_authenticated" ELSE "",
          0,
          IF hk # {} THEN ValidHomeworks ELSE NoHomeworks) :
        ks \in {{"error"}, {"code"}, {"error", "code"}},
        hk \in {{}, {"homeworks"}}}

DictBodies == PlainBodies \cup RejectionBodies

EmptyBody == Body("list", {}, "", "", 0, NoHomeworks)

Bodies == DictBodies \cup {EmptyBody, [EmptyBody EXCEPT !.type = "int"]}

Http(transport_ok, status_code, json_ok, body) ==
    [transport_ok |-> transport_ok, status_code |-> status_code,
     json_ok |-> json_ok, body |-> body]

(* Outcomes of requests.get followed by response.json(). *)
HttpOutcomes ==
    {Http(FALSE, 0, FALSE, EmptyBody)}
    \cup {Http(TRUE, c, FALSE, EmptyBody) : c \in StatusCodes}
    \cup {Http(TRUE, 200, TRUE, b) : b \in Bodies}

----------------------------------------------------------------------------
(* The functions of homework.py *)

ReturnNone == [raised |-> FALSE, exc |-> <<>>, value |-> <<>>]

(* send_message: `delivered` is whether bot.send_message returned normally.
   The result is <<TRUE>> for True and <<>> for None. *)
send_message(message, delivered) ==
    [message |-> message, delivered |-> delivered,
     result |-> IF delivered THEN <<TRUE>> ELSE <<>>]

(* `key in result` for the decoded body. *)
Contains(result, key) == result.type = "dict" /\ key \in result.keys

(* result.get(key) for a dict body whose values under `error` and `code`
   are strings. *)
DictGet(result, key) ==
    IF key \notin result.keys THEN NoneValue
    ELSE IF key = "error" THEN result.error ELSE result.code

(* a non-200 status reported with the generic Exception of line 88. *)
get_api_answer_generic_exception(timestamp, http) ==
    IF ~http.transport_ok
    THEN Raise(Exc("Exception", API_ANSWER_ERROR(timestamp, "RequestException")))
    ELSE IF http.status_code # 200
    THEN Raise(Exc("Exception",
                   API_ANSWER_ERROR(timestamp, IntStr(http.status_code))))
    ELSE IF ~http.json_ok
    THEN Raise(Exc("JSONDecodeError", Text("", "", "Expecting value", 0)))
    ELSE LET result == http.body IN
         IF result.type = "int"
         THEN Raise(Exc("TypeError",
                        Text("", "", "argument of type 'int' is not iterable", 0)))
         ELSE IF Contains(result, PyOr("error", "code"))
         THEN Raise(Exc("Exception",
                        API_ANSWER_ERROR(timestamp,
                            PyOr(DictGet(result, "error"), DictGet(result, "code")))))
         ELSE Return(result)

get_api_answer(timestamp, http) ==
    IF ~http.transport_ok
    THEN Raise(Exc("Exception", API_ANSWER_ERROR(timestamp, "RequestException")))
    ELSE IF http.status_code # 200
    THEN Raise(Exc("RequestFailedException",
                   API_ANSWER_ERROR(timestamp, IntStr(http.status_code))))
    ELSE IF ~http.json_ok
    THEN Raise(Exc("JSONDecodeError", Text("", "", "Expecting value", 0)))
    ELSE LET result == http.body IN
         IF result.type = "int"
         THEN Raise(Exc("TypeError",
                        Text("", "", "argument of type 'int' is not iterable", 0)))
         ELSE IF Contains(result, PyOr("error", "code"))
         THEN Raise(Exc("Exception",
                        API_ANSWER_ERROR(timestamp,
                            PyOr(DictGet(result, "error"), DictGet(result, "code")))))
         ELSE Return(result)

Reverse(seq) == [i \in 1..Len(seq) |-> seq[Len(seq) + 1 - i]]

(* `return homeworks[::-1]`: the list handed back in reverse order. *)
check_response_reversed(response) ==
    IF response.type # "dict"
    THEN Raise(Exc("TypeError", API_RESPONSE_ERROR(response.type)))
    ELSE IF "homeworks" \notin response.keys
    THEN Raise(Exc("KeyError", RESPONSE_KEY_ERROR))
    ELSE LET homeworks == response.homeworks IN
         IF ~homeworks.is_list
         THEN Raise(Exc("TypeError", API_RESPONSE_ERROR("str")))
         ELSE IF homeworks.items # <<>>
         THEN Return(Reverse(homeworks.items))
         ELSE ReturnNone

(* `if not homeworks: raise TypeError(...)`: the empty list taken for a
   malformed answer. *)
check_response_empty_raises(response) ==
    IF response.type # "dict"
    THEN Raise(Exc("TypeError", API_RESPONSE_ERROR(response.type)))
    ELSE IF "homeworks" \notin response.keys
    THEN Raise(Exc("KeyError", RESPONSE_KEY_ERROR))
    ELSE LET homeworks == response.homeworks IN
         IF ~homeworks.is_list \/ homeworks.items = <<>>
         THEN Raise(Exc("TypeError", API_RESPONSE_ERROR("str")))
         ELSE Return(homeworks.items)

check_response(response) ==
    IF response.type # "dict"
    THEN Raise(Exc("TypeError", API_RESPONSE_ERROR(response.type)))
    ELSE IF "homeworks" \notin response.keys
    THEN Raise(Exc("KeyError", RESPONSE_KEY_ERROR))
    ELSE LET homeworks == response.homeworks IN
         IF ~homeworks.is_list
         THEN Raise(Exc("TypeError", API_RESPONSE_ERROR("str")))
         ELSE IF homeworks.items # <<>>
         THEN Return(homeworks.items)
         ELSE ReturnNone

(* VERDICTS.get(status): an unknown status formatted with the verdict None. *)
parse_status_lenient(homework) ==
    IF ~homework.is_dict
    THEN Raise(Exc("TypeError", Text("", "", "string indices must be integers", 0)))
    ELSE IF "homework_name" \notin homework.keys
    THEN Raise(Exc("KeyError", Text("", "", "homework_name", 0)))
    ELSE IF "status" \notin homework.keys
    THEN Raise(Exc("KeyError", Text("", "", "status", 0)))
    ELSE Return(STATUS_VERDICT(homework.homework_name,
                               IF homework.status \in DOMAIN VERDICTS
                               THEN VERDICTS[homework.status] ELSE NoneValue))

parse_status(homework) ==
    IF ~homework.is_dict
    THEN Raise(Exc("TypeError", Text("", "", "string indices must be integers", 0)))
    ELSE IF "homework_name" \notin homework.keys
    THEN Raise(Exc("KeyError", Text("", "", "homework_name", 0)))
    ELSE IF "status" \notin homework.keys
    THEN Raise(Exc("KeyError", Text("", "", "status", 0)))
    ELSE LET homework_name == homework.homework_name
             status == homework.status
         IN IF status \notin DOMAIN VERDICTS
            THEN Raise(Exc("KeyError", WRONG_STATUS_ERROR(homework_name, status)))
            ELSE Return(STATUS_VERDICT(homework_name, VERDICTS[status]))

(* check_tokens: the value of `(a or b or c) is None` decides. *)
check_tokens(practicum, telegram, chat_id) ==
    IF PyOr(PyOr(practicum, telegram), chat_id) = NoneValue THEN FALSE ELSE TRUE

----------------------------------------------------------------------------
(* main *)

(* sys.exit() without an argument ends the process with status 0; an
   exception that leaves main ends it with status 1. *)
SysExitStatus == 0
UncaughtStatus == 1

(* response.get('current_date', 0): a positional default of the wrong value. *)
GetCurrentDatePositionalZero(response, default) ==
    Return(IF "current_date" \in response.keys THEN response.current_date ELSE 0)

(* response.get('current_date', default=current_timestamp): dict.get takes
   no keyword arguments, so the call raises TypeError for every dict. *)
GetCurrentDate(response, default) ==
    Raise(Exc("TypeError", Text("", "", "get() takes no keyword arguments", 0)))

(* `except RequestFailedException` in place of `except Exception`. *)
CaughtOnlyRequestFailed(exc) == exc.cls = "RequestFailedException"

(* `except Exception`: every exception class raised in the try block derives
   from Exception. *)
Caught(exc) ==
    exc.cls \in {"Exception", "RequestFailedException", "JSONDecodeError",
                 "TypeError", "KeyError"}

(* `if not errors`: only the first error of a run is let through. *)
DiffersFromEmptyOnly(message, last) == last = EmptyString

(* an `if` that lets every error message through. *)
AlwaysDiffers(message, last) == TRUE

(* the test `message != errors` of the except block. *)
Differs(message, last) == message # last

(* What the try block did: the exception that left it, the functions it
   called in order, the value check_response returned (<<>> for None or no
   return), the sends and the cursor after it. *)
TryResult(exc, calls, checked, sends, timestamp) ==
    [exc |-> exc, calls |-> calls, checked |-> checked, sends |-> sends,
     current_timestamp |-> timestamp]

(* homeworks[-1]: the last element in place of the first. *)
SelectLastHomework(homeworks) == homeworks[Len(homeworks)]

(* homework = homeworks[0], line 154. *)
SelectHomework(homeworks) == homeworks[1]

(* The try block of the loop, lines 151-158. *)
TryBlock(timestamp, http, delivered) ==
    LET api == get_api_answer(timestamp, http) IN
    IF api.raised
    THEN TryResult(api.exc, <<"get_api_answer">>, <<>>, <<>>, timestamp)
    ELSE
    LET response == api.value[1]
        checked == check_response(response)
    IN
    IF checked.raised
    THEN TryResult(checked.exc, <<"get_api_answer", "check_response">>,
                   <<>>, <<>>, timestamp)
    ELSE IF checked.value = <<>>
    THEN TryResult(<<>>, <<"get_api_answer", "check_response">>,
                   <<>>, <<>>, timestamp)
    ELSE
    LET homeworks == checked.value[1]
        homework == SelectHomework(homeworks)
        parsed == parse_status(homework)
    IN
    IF parsed.raised
    THEN TryResult(parsed.exc,
                   <<"get_api_answer", "check_response", "parse_status">>,
                   checked.value, <<>>, timestamp)
    ELSE
    LET sent == send_message(parsed.value[1], delivered)
        date == GetCurrentDate(response, timestamp)
        calls == <<"get_api_answer", "check_response", "parse_status",
                   "send_message">>
    IN
    IF date.raised
    THEN TryResult(date.exc, calls, checked.value, <<sent>>, timestamp)
    ELSE TryResult(<<>>, calls, checked.value, <<sent>>, date.value[1])

(* The except block, lines 159-165. *)
ExceptBlock(error, last, delivered) ==
    LET message == ERROR_MESSAGE(error) IN
    IF Differs(message, last)
    THEN [message |-> message, sends |-> <<send_message(message, delivered)>>,
          errors |-> message]
    ELSE [message |-> message, sends |-> <<>>, errors |-> last]

Init ==
    /\ pc = "start"
    /\ PRACTICUM_TOKEN \in TokenValues
    /\ TELEGRAM_TOKEN \in TokenValues
    /\ TELEGRAM_CHAT_ID \in TokenValues
    /\ current_timestamp = 0
    /\ errors = EmptyString
    /\ exit_codes = <<>>
    /\ cycle = <<>>
    /\ prev_error = <<>>
    /\ polled = FALSE
    /\ non200_notified = FALSE
    /\ sleeps_since_fetch = 0
    /\ slept_since_fetch = 0

Exit(status) ==
    /\ pc' = "exited"
    /\ exit_codes' = <<status>>

(* telegram.Bot(token=...) validates its argument: it raises for None and
   for the empty string, and for a string that is not shaped like a token;
   otherwise it returns a bot. *)
BotOutcomes(token) == IF Truthy(token) THEN BOOLEAN ELSE {FALSE}

(* main, lines 144-148: the checks and assignments before the loop. *)
Start ==
    /\ pc = "start"
    /\ IF check_tokens(PRACTICUM_TOKEN, TELEGRAM_TOKEN, TELEGRAM_CHAT_ID) = FALSE
       THEN /\ Exit(SysExitStatus)
            /\ UNCHANGED <<current_timestamp, errors>>
       ELSE \E bot_created \in BotOutcomes(TELEGRAM_TOKEN) :
            IF ~bot_created
            THEN /\ Exit(UncaughtStatus)
                 /\ UNCHANGED <<current_timestamp, errors>>
            ELSE /\ \E now \in StartTimes : current_timestamp' = now
                 /\ errors' = EmptyString
                 /\ pc' = "poll"
                 /\ UNCHANGED exit_codes
    /\ UNCHANGED <<PRACTICUM_TOKEN, TELEGRAM_TOKEN, TELEGRAM_CHAT_ID, cycle,
                   prev_error, polled, non200_notified, sleeps_since_fetch,
                   slept_since_fetch>>

(* Whether the try block reaches send_message for this response. *)
StatusSendReached(timestamp, http) == TryBlock(timestamp, http, TRUE).sends # <<>>

(* Whether the except block reaches send_message after this response. *)
ErrorSendReached(timestamp, http, last) ==
    LET try == TryBlock(timestamp, http, TRUE) IN
    /\ try.exc # <<>>
    /\ Caught(try.exc[1])
    /\ ExceptBlock(try.exc[1], last, TRUE).sends # <<>>

(* main, lines 150-165: one execution of the try statement.  The outcome of
   a delivery is drawn only where send_message is called. *)
PollCycle ==
    /\ pc = "poll"
    /\ \E http \in HttpOutcomes :
       \E status_delivered \in
            IF StatusSendReached(current_timestamp, http) THEN BOOLEAN ELSE {FALSE} :
       \E error_delivered \in
            IF ErrorSendReached(current_timestamp, http, errors) THEN BOOLEAN ELSE {FALSE} :
        LET try == TryBlock(current_timestamp, http, status_delivered)
            caught == try.exc # <<>> /\ Caught(try.exc[1])
            handled == ExceptBlock(try.exc[1], errors, error_delivered)
        IN
        /\ cycle' = <<[http |-> http,
                       from_date |-> current_timestamp,
                       cursor_before |-> current_timestamp,
                       errors_before |-> errors,
                       calls |-> try.calls,
                       checked |-> try.checked,
                       exc |-> try.exc,
                       sends |-> try.sends \o (IF caught THEN handled.sends ELSE <<>>),
                       error |-> IF try.exc # <<>>
                                 THEN <<ERROR_MESSAGE(try.exc[1])>> ELSE <<>>,
                       previous_error |-> prev_error,
                       non200_notified_before |-> non200_notified,
                       first |-> ~polled,
                       sleeps_before |-> sleeps_since_fetch,
                       slept_before |-> slept_since_fetch]>>
        /\ prev_error' = IF try.exc # <<>>
                         THEN <<ERROR_MESSAGE(try.exc[1])>> ELSE <<>>
        /\ non200_notified' =
              \/ non200_notified
              \/ /\ http.transport_ok
                 /\ http.status_code # 200
                 /\ caught
                 /\ handled.sends # <<>>
        /\ current_timestamp' = try.current_timestamp
        /\ IF try.exc = <<>>
           THEN /\ pc' = "sleep"
                /\ UNCHANGED <<errors, exit_codes>>
           ELSE IF caught
           THEN /\ errors' = handled.errors
                /\ pc' = "sleep"
                /\ UNCHANGED exit_codes
           ELSE /\ Exit(UncaughtStatus)
                /\ UNCHANGED errors
    /\ polled' = TRUE
    /\ sleeps_since_fetch' = 0
    /\ slept_since_fetch' = 0
    /\ UNCHANGED <<PRACTICUM_TOKEN, TELEGRAM_TOKEN, TELEGRAM_CHAT_ID>>

(* main, line 166: time.sleep(RETRY_TIME), then the next iteration. *)
Sleep ==
    /\ pc = "sleep"
    /\ sleeps_since_fetch' = sleeps_since_fetch + 1
    /\ slept_since_fetch' = slept_since_fetch + RETRY_TIME
    /\ pc' = "poll"
    /\ cycle' = <<>>
    /\ UNCHANGED <<PRACTICUM_TOKEN, TELEGRAM_TOKEN, TELEGRAM_CHAT_ID,
                   current_timestamp, errors, exit_codes, prev_error, polled,
                   non200_notified>>

Next == Start \/ PollCycle \/ Sleep

Spec == Init /\ [][Next]_vars

TypeOK ==
    /\ pc \in {"start", "poll", "sleep", "exited"}
    /\ Len(exit_codes) <= 1
    /\ Len(cycle) <= 1

----------------------------------------------------------------------------
(* Vocabulary of the properties *)

(* The try statement of an iteration has just run. *)
CycleDone == cycle # <<>>

LastCycle == cycle[1]

(* Indices of the sends of the last iteration, by kind of message. *)
StatusSends == {i \in 1..Len(LastCycle.sends) : ~LastCycle.sends[i].message.wrapped}
ErrorSends == {i \in 1..Len(LastCycle.sends) : LastCycle.sends[i].message.wrapped}

(* The request succeeded with HTTP 200 and a JSON object without `error` or
   `code`, whose `homeworks` is a non-empty list, the first item of which has
   both fields and a status of the catalog. *)
ValidStatusResponse(http) ==
    /\ http.transport_ok
    /\ http.status_code = 200
    /\ http.json_ok
    /\ http.body.type = "dict"
    /\ http.body.keys \cap {"error", "code"} = {}
    /\ "homeworks" \in http.body.keys
    /\ http.body.homeworks.is_list
    /\ http.body.homeworks.items # <<>>
    /\ LET first == http.body.homeworks.items[1] IN
       /\ first.is_dict
       /\ first.keys = {"homework_name", "status"}
       /\ first.status \in {"approved", "reviewing", "rejected"}

AnySecretAbsent ==
    NoneValue \in {PRACTICUM_TOKEN, TELEGRAM_TOKEN, TELEGRAM_CHAT_ID}

----------------------------------------------------------------------------
(* C1: after an iteration whose response is valid, has a non-empty homeworks
   list with a catalog status first and carries current_date = d, the cursor
   equals d.  The code raises TypeError at the cursor assignment instead. *)
C1_CursorAdvancesToCurrentDate ==
    (/\ CycleDone
     /\ ValidStatusResponse(LastCycle.http)
     /\ "current_date" \in LastCycle.http.body.keys)
    => current_timestamp = LastCycle.http.body.current_date

(* C2: in an iteration with such a response exactly one notification is
   sent, the status message of the first item, and no error message. *)
C2_ExactlyOneStatusNotification ==
    (CycleDone /\ ValidStatusResponse(LastCycle.http))
    => /\ Len(LastCycle.sends) = 1
       /\ ErrorSends = {}
       /\ LET first == LastCycle.http.body.homeworks.items[1] IN
          LastCycle.sends[1].message =
              STATUS_VERDICT(first.homework_name, VERDICTS[first.status])

(* C3: an iteration that fails with the same error message as the iteration
   before it attempts no send of an error message. *)
C3_DuplicateErrorSuppressed ==
    (/\ CycleDone
     /\ LastCycle.error # <<>>
     /\ LastCycle.previous_error = LastCycle.error)
    => ErrorSends = {}

C3_Witness ==
    /\ pc = "sleep"
    /\ CycleDone
    /\ LastCycle.error # <<>>
    /\ LastCycle.previous_error = LastCycle.error
    /\ LastCycle.http.status_code = 503
    /\ LastCycle.sends = <<>>

(* C4: the error slot is empty after every iteration that delivered a status
   notification. *)
C4_SlotClearedAfterStatusSent ==
    (CycleDone /\ \E i \in StatusSends : LastCycle.sends[i].delivered)
    => errors = EmptyString

(* C5: when the send of an error message fails, the error slot keeps the
   value it had before the iteration. *)
C5_SlotKeptWhenErrorSendFails ==
    (CycleDone /\ \E i \in ErrorSends : ~LastCycle.sends[i].delivered)
    => errors = LastCycle.errors_before

(* C6: with any secret absent the loop is never entered: no request is
   issued and main is at its start or has exited. *)
C6_NoLoopWhenSecretAbsent ==
    AnySecretAbsent => (~polled /\ pc \in {"start", "exited"})

(* C7: the process never ends with exit status 0. *)
C7_ExitStatusNonZero ==
    exit_codes # <<>> => exit_codes[1] # 0

(* C8: once in the loop the process stays in it: the try statement is always
   followed by the sleep and the sleep by the next try statement. *)
C8_LoopNeverTerminates ==
    [][/\ pc = "poll" => pc' = "sleep"
       /\ pc = "sleep" => pc' = "poll"]_vars

C8_Witness ==
    /\ pc = "poll"
    /\ polled
    /\ prev_error # <<>>
    /\ prev_error[1].detail = "get() takes no keyword arguments"

(* C9: every request but the first is preceded by exactly one sleep, of 600
   seconds, since the request before it. *)
C9_OneSleepBetweenFetches ==
    (CycleDone /\ ~LastCycle.first)
    => (LastCycle.sleeps_before = 1 /\ LastCycle.slept_before = 600)

C9_Witness ==
    /\ CycleDone
    /\ ~LastCycle.first
    /\ LastCycle.previous_error # <<>>
    /\ LastCycle.sleeps_before = 1

(* C10: an iteration that ends in an error, or whose response carries no
   current_date, leaves the cursor as it was. *)
C10_CursorKeptWithoutCurrentDate ==
    (/\ CycleDone
     /\ \/ LastCycle.error # <<>>
        \/ "current_date" \notin LastCycle.http.body.keys)
    => current_timestamp = LastCycle.cursor_before

C10_Witness ==
    /\ pc = "sleep"
    /\ CycleDone
    /\ LastCycle.http.status_code = 503
    /\ LastCycle.error # <<>>
    /\ current_timestamp = LastCycle.cursor_before
    /\ LastCycle.from_date = current_timestamp

(* The request succeeded with HTTP 200 and a decoded JSON object. *)
DecodedObject(http) ==
    /\ http.transport_ok
    /\ http.status_code = 200
    /\ http.json_ok
    /\ http.body.type = "dict"

(* A JSON object without `error` or `code` whose `homeworks` is the empty list. *)
EmptyHomeworksResponse(http) ==
    /\ DecodedObject(http)
    /\ http.body.keys \cap {"error", "code"} = {}
    /\ "homeworks" \in http.body.keys
    /\ http.body.homeworks.is_list
    /\ http.body.homeworks.items = <<>>

(* C11: an iteration whose response has an empty homeworks list raises
   nothing, check_response returns None, nothing is sent, and the cursor and
   the error slot keep their values. *)
C11_EmptyHomeworksIsNoUpdate ==
    (CycleDone /\ EmptyHomeworksResponse(LastCycle.http))
    => /\ LastCycle.calls = <<"get_api_answer", "check_response">>
       /\ LastCycle.exc = <<>>
       /\ LastCycle.checked = <<>>
       /\ LastCycle.sends = <<>>
       /\ current_timestamp = LastCycle.cursor_before
       /\ errors = LastCycle.errors_before

C11_Witness ==
    /\ pc = "sleep"
    /\ CycleDone
    /\ EmptyHomeworksResponse(LastCycle.http)
    /\ LastCycle.sends = <<>>
    /\ errors # EmptyString
    /\ errors = LastCycle.errors_before

(* C12: for every HTTP-200 JSON object with an `error` or a `code` key
   get_api_answer raises, and check_response is not called. *)
C12_ErrorOrCodeRejected ==
    (/\ CycleDone
     /\ DecodedObject(LastCycle.http)
     /\ LastCycle.http.body.keys \cap {"error", "code"} # {})
    => /\ LastCycle.calls = <<"get_api_answer">>
       /\ LastCycle.exc # <<>>

(* C13: a status code other than 200 makes get_api_answer raise
   RequestFailedException; the iteration sends no status message and exactly
   one error message, that of this exception, unless the message equals the
   error slot, in which case it sends nothing. *)
C13_Non200IsRequestFailed ==
    (/\ CycleDone
     /\ LastCycle.http.transport_ok
     /\ LastCycle.http.status_code # 200)
    => /\ LastCycle.calls = <<"get_api_answer">>
       /\ LastCycle.exc # <<>>
       /\ LastCycle.exc[1].cls = "RequestFailedException"
       /\ LastCycle.exc[1].text.tmpl = "API_ANSWER_ERROR"
       /\ LastCycle.exc[1].text.detail = "503"
       /\ LastCycle.exc[1].text.from_date = LastCycle.from_date
       /\ StatusSends = {}
       /\ IF LastCycle.error[1] # LastCycle.errors_before
          THEN /\ Len(LastCycle.sends) = 1
               /\ LastCycle.sends[1].message = LastCycle.error[1]
               /\ LastCycle.sends[1].message.wrapped
          ELSE LastCycle.sends = <<>>

C13_Witness ==
    /\ pc = "sleep"
    /\ CycleDone
    /\ LastCycle.http.transport_ok
    /\ LastCycle.http.status_code = 503
    /\ Len(LastCycle.sends) = 1
    /\ LastCycle.sends[1].message.detail = "503"

(* The response lacks the shape check_response asks for. *)
Misshapen(response) ==
    \/ response.type # "dict"
    \/ "homeworks" \notin response.keys
    \/ ~response.homeworks.is_list

(* C14: whenever check_response is called, it raises for a response that is
   not a mapping, lacks `homeworks` or has a non-list under it, and for any
   other response with a non-empty list it returns that very list. *)
C14_CheckResponseShapeAndOrder ==
    (CycleDone /\ Len(LastCycle.calls) >= 2)
    => LET response == LastCycle.http.body IN
       /\ Misshapen(response)
            => /\ LastCycle.calls = <<"get_api_answer", "check_response">>
               /\ LastCycle.exc # <<>>
               /\ LastCycle.exc[1].cls \in {"TypeError", "KeyError"}
       /\ (~Misshapen(response) /\ response.homeworks.items # <<>>)
            => LastCycle.checked = <<response.homeworks.items>>

C14_Witness ==
    /\ CycleDone
    /\ Len(LastCycle.calls) >= 2
    /\ ~Misshapen(LastCycle.http.body)
    /\ LastCycle.checked # <<>>
    /\ Len(LastCycle.checked[1]) = 2
    /\ LastCycle.checked[1][1] # LastCycle.checked[1][2]
    /\ LastCycle.checked[1] = LastCycle.http.body.homeworks.items

(* The item is a dict that lacks a field or carries a status outside the
   catalog. *)
UnusableItem(item) ==
    /\ item.is_dict
    /\ \/ item.keys # {"homework_name", "status"}
       \/ item.status \notin {"approved", "reviewing", "rejected"}

(* C15: when the first item lacks homework_name or status, or has a status
   outside the catalog, parse_status raises, send_message is not called in
   the try block and no status message is sent. *)
C15_UnusableItemSendsNoStatus ==
    (/\ CycleDone
     /\ Len(LastCycle.calls) >= 3
     /\ UnusableItem(LastCycle.http.body.homeworks.items[1]))
    => /\ LastCycle.calls = <<"get_api_answer", "check_response", "parse_status">>
       /\ LastCycle.exc # <<>>
       /\ LastCycle.exc[1].cls = "KeyError"
       /\ StatusSends = {}

C15_Witness ==
    /\ pc = "sleep"
    /\ CycleDone
    /\ Len(LastCycle.calls) >= 3
    /\ UnusableItem(LastCycle.http.body.homeworks.items[1])
    /\ LastCycle.http.body.homeworks.items[1].status = "unknown"
    /\ Len(LastCycle.sends) = 1
    /\ LastCycle.sends[1].message.tmpl = "WRONG_STATUS_ERROR"

(* The sentence the catalog holds for a status. *)
CatalogSentence(status) ==
    CASE status = "approved" -> "verdict: approved, the reviewer liked everything"
      [] status = "reviewing" -> "verdict: taken for review"
      [] status = "rejected" -> "verdict: the reviewer has remarks"

(* C16: when parse_status is given an item with a homework_name and a status
   of the catalog, the message handed to send_message is the status template
   filled with exactly that name and the catalog sentence of exactly that
   status. *)
C16_MessageFromNameAndVerdict ==
    (/\ CycleDone
     /\ Len(LastCycle.calls) >= 3
     /\ LastCycle.http.body.homeworks.items[1].is_dict
     /\ ~UnusableItem(LastCycle.http.body.homeworks.items[1]))
    => LET item == LastCycle.http.body.homeworks.items[1] IN
       /\ LastCycle.sends # <<>>
       /\ LastCycle.sends[1].message =
            [wrapped |-> FALSE, quoted |-> FALSE, tmpl |-> "STATUS_VERDICT",
             homework_name |-> item.homework_name,
             detail |-> CatalogSentence(item.status), from_date |-> 0]

C16_Witness ==
    /\ CycleDone
    /\ Len(LastCycle.calls) >= 3
    /\ LastCycle.http.body.homeworks.items[1].is_dict
    /\ LastCycle.http.body.homeworks.items[1].keys = {"homework_name", "status"}
    /\ LastCycle.http.body.homeworks.items[1].homework_name = "hw2"
    /\ LastCycle.http.body.homeworks.items[1].status = "rejected"
    /\ LastCycle.sends # <<>>
    /\ LastCycle.sends[1].message.homework_name = "hw2"
    /\ LastCycle.sends[1].message.detail = "verdict: the reviewer has remarks"

(* C17: whatever the length of the list, the iteration does what parsing the
   first item alone decides: if parse_status raises for it, that exception is
   the error and no status message is sent; otherwise exactly one status
   message is sent, the one of the first item. *)
C17_OnlyFirstItemCounts ==
    (CycleDone /\ Len(LastCycle.calls) >= 3)
    => LET first == LastCycle.http.body.homeworks.items[1]
           parsed == parse_status(first)
       IN
       /\ Cardinality(StatusSends) <= 1
       /\ parsed.raised => (LastCycle.exc = parsed.exc /\ StatusSends = {})
       /\ ~parsed.raised
            => /\ StatusSends = {1}
               /\ LastCycle.sends[1].message = parsed.value[1]
               /\ LastCycle.sends[1].message.homework_name = first.homework_name

C17_Witness ==
    /\ pc = "sleep"
    /\ CycleDone
    /\ Len(LastCycle.calls) >= 3
    /\ Len(LastCycle.http.body.homeworks.items) = 2
    /\ LastCycle.http.body.homeworks.items[1].homework_name = "hw1"
    /\ LastCycle.http.body.homeworks.items[1].status = "approved"
    /\ ~LastCycle.http.body.homeworks.items[2].is_dict
    /\ StatusSends = {1}
    /\ LastCycle.sends[1].message.homework_name = "hw1"

(* C18: whenever the error message of an iteration differs from the error
   slot, exactly one send of it is attempted, also when the same message was
   already sent earlier in the run. *)
C18_SlotHoldsOnlyLastError ==
    (/\ CycleDone
     /\ LastCycle.error # <<>>
     /\ LastCycle.error[1] # LastCycle.errors_before)
    => /\ Cardinality(ErrorSends) = 1
       /\ \A i \in ErrorSends : LastCycle.sends[i].message = LastCycle.error[1]

(* Errors A, B, A: the message of a non-200 answer was sent before, another
   error came in between, and it is sent again. *)
C18_Witness ==
    /\ pc = "sleep"
    /\ CycleDone
    /\ LastCycle.http.transport_ok
    /\ LastCycle.http.status_code = 503
    /\ LastCycle.non200_notified_before
    /\ LastCycle.previous_error # <<>>
    /\ LastCycle.previous_error # LastCycle.error
    /\ LastCycle.errors_before # LastCycle.error[1]
    /\ Cardinality(ErrorSends) = 1

(* C19: a status message is sent only in an iteration whose request returned
   HTTP 200 with an object free of `error` and `code`, whose homeworks list
   is non-empty and whose first item has both fields and a catalog status,
   after get_api_answer, check_response and parse_status in this order. *)
C19_StatusSendOnlyAfterAllChecks ==
    (CycleDone /\ StatusSends # {})
    => /\ ValidStatusResponse(LastCycle.http)
       /\ LastCycle.calls = <<"get_api_answer", "check_response", "parse_status",
                              "send_message">>

====
